---- MODULE Spec2Model ----
(***************************************************************************)
(* midi_clean.py: MIDIProcessor (parse_notes, the process() pipeline and   *)
(* reconstruct_midi) as a state machine.  A MidiFile is a record           *)
(* [ticks_per_beat, tracks], a track a sequence of messages, a message a   *)
(* record [type, note, velocity, channel, time].  A NoteEvent is a record  *)
(* with the dataclass's six fields plus id, which stands for the identity  *)
(* of the Python object (stages mutate notes in place and reorder lists).  *)
(* A Python float (--swing, --vel-scale) is <<sign, mant, exp, finite>>:    *)
(* the double sign * mant * 2^-exp, mant a natural number written as its   *)
(* base-2^15 digits, least significant first; finite is FALSE for inf/nan. *)
(* Integers are below 2^31.                                                *)
(* Strings handled character by character are sequences of 1-char strings  *)
(* over printable ASCII (AsciiChars).                                      *)
(***************************************************************************)
EXTENDS Integers, Sequences, FiniteSets, TLC

VARIABLES
    pc,        \* position of the run: the next step to take
    midi,      \* self.midi: the input MidiFile
    notes,     \* the Note Store the pipeline works on
    before,    \* history: the Note Store as the latest stage found it
    arg,       \* the command-line value (or call argument) the latest step read
    events,    \* per track, the sorted events list of the latest reconstruct_midi
    new_midi,  \* the tracks of the MidiFile reconstruct_midi returned
    result     \* the value returned by the latest call made on its own

vars == <<pc, midi, notes, before, arg, events, new_midi, result>>

(* ------------------------------------------------------------------ *)
(* Bounds of the explored inputs                                        *)
(* ------------------------------------------------------------------ *)
MaxMsgs == 4        \* messages per track in the round-trip inputs
MaxProcMsgs == 2    \* messages per track in the pipeline inputs
MaxTime == 1        \* largest delta time of an input message
MaxStore == 3       \* notes in a directly enumerated Note Store
MaxTimingNotes == 2 \* notes in a store handed to the timing stages
MaxTick == 2        \* largest tick in a directly enumerated Note Store
TicksPerBeat == 8   \* ticks_per_beat of the input files

(* ------------------------------------------------------------------ *)
(* Program constants                                                    *)
(* ------------------------------------------------------------------ *)
MaxPitch == 127          \* largest MIDI data byte: pitch and velocity
WindowTicks == 20        \* default window_ticks of straighten_chords
HumanizeAmount == 10     \* default amount of humanize_timing
HumanizeVariance == 15   \* default variance of humanize_velocity
OffVelocity == 64        \* velocity given to a note closed by a note_off

\* an option that was not given (falsy in process())
None == <<>>

\* a store_true flag that was given
On == <<TRUE>>

(* ------------------------------------------------------------------ *)
(* Python arithmetic                                                    *)
(* ------------------------------------------------------------------ *)
Abs(x) == IF x < 0 THEN -x ELSE x

Min(a, b) == IF a < b THEN a ELSE b

Max(a, b) == IF a > b THEN a ELSE b

\* int(n / d) for d > 0: truncation toward zero
PyInt(n, d) == IF n >= 0 THEN n \div d ELSE -((-n) \div d)

\* round(n / d) for d > 0: Python 3 rounds an exact half to the even integer
PyRound(n, d) ==
    LET q == n \div d
        r == n % d
    IN  IF 2 * r < d THEN q
        ELSE IF 2 * r > d THEN q + 1
        ELSE IF q % 2 = 0 THEN q ELSE q + 1

(* ------------------------------------------------------------------ *)
(* Python floats: int * float and int(float) on IEEE 754 doubles        *)
(* ------------------------------------------------------------------ *)
LimbBits == 15      \* bits per digit of a natural number kept as digits
MantBits == 53      \* significant bits of a double
MaxExp == 1024      \* every finite double is below 2^MaxExp in magnitude

RECURSIVE Pow2(_)
Pow2(k) == IF k = 0 THEN 1 ELSE 2 * Pow2(k - 1)

Base == Pow2(LimbBits)

RECURSIVE BigOfInt(_)
\* the digits of the natural number n
BigOfInt(n) == IF n = 0 THEN <<>> ELSE <<n % Base>> \o BigOfInt(n \div Base)

RECURSIVE BigToInt(_)
BigToInt(a) == IF a = <<>> THEN 0 ELSE a[1] + Base * BigToInt(Tail(a))

RECURSIVE BigTrim(_)
\* a without leading zero digits
BigTrim(a) ==
    IF a = <<>> THEN a
    ELSE IF a[Len(a)] = 0 THEN BigTrim(SubSeq(a, 1, Len(a) - 1))
    ELSE a

RECURSIVE BigAdd(_, _, _)
BigAdd(a, b, carry) ==
    IF a = <<>> /\ b = <<>> THEN (IF carry = 0 THEN <<>> ELSE <<carry>>)
    ELSE LET x == IF a = <<>> THEN 0 ELSE a[1]
             y == IF b = <<>> THEN 0 ELSE b[1]
             t == x + y + carry
         IN  <<t % Base>> \o BigAdd(IF a = <<>> THEN a ELSE Tail(a),
                                    IF b = <<>> THEN b ELSE Tail(b), t \div Base)

RECURSIVE BigMulLimb(_, _, _)
\* a times the digit d, plus carry
BigMulLimb(a, d, carry) ==
    IF a = <<>> THEN (IF carry = 0 THEN <<>> ELSE <<carry>>)
    ELSE LET t == a[1] * d + carry
         IN  <<t % Base>> \o BigMulLimb(Tail(a), d, t \div Base)

RECURSIVE BigMul(_, _)
BigMul(a, b) ==
    IF b = <<>> THEN <<>>
    ELSE BigAdd(BigMulLimb(a, b[1], 0), <<0>> \o BigMul(a, Tail(b)), 0)

RECURSIVE BitLen(_)
BitLen(n) == IF n = 0 THEN 0 ELSE 1 + BitLen(n \div 2)

\* the number of significant bits of a
BigBitLen(a) ==
    LET t == BigTrim(a)
    IN  IF t = <<>> THEN 0 ELSE (Len(t) - 1) * LimbBits + BitLen(t[Len(t)])

\* a \div 2^s
BigShr(a, s) ==
    LET k == s \div LimbBits
        r == s % LimbBits
        t == IF k >= Len(a) THEN <<>> ELSE SubSeq(a, k + 1, Len(a))
    IN  [i \in 1..Len(t) |->
            (t[i] \div Pow2(r))
            + (IF i < Len(t) THEN (t[i + 1] % Pow2(r)) * Pow2(LimbBits - r) ELSE 0)]

\* a * 2^s
BigShl(a, s) ==
    BigMulLimb([i \in 1..(s \div LimbBits) |-> 0] \o a, Pow2(s % LimbBits), 0)

\* bit i of a, bit 0 the least significant
BigBit(a, i) ==
    IF i \div LimbBits >= Len(a) THEN 0
    ELSE (a[(i \div LimbBits) + 1] \div Pow2(i % LimbBits)) % 2

\* a % 2^s = 0
BigLowZero(a, s) ==
    /\ \A i \in 1..Min(s \div LimbBits, Len(a)) : a[i] = 0
    /\ (s \div LimbBits < Len(a)) => a[(s \div LimbBits) + 1] % Pow2(s % LimbBits) = 0

\* the float <<sign, mant, exp, finite>> of a finite double
Float(sign, mant, exp) == <<sign, mant, exp, TRUE>>

\* float('inf'), float('-inf') and float('nan'): int() of each raises
NonFinite == <<1, <<>>, 0, FALSE>>

IsFinite(x) == x[4]

\* bool(x) of a float: only 0.0 and -0.0 are falsy
Truthy(x) == ~IsFinite(x) \/ BigTrim(x[2]) # <<>>

\* the number of bits of the integer part of mant * 2^-exp
IntBits(mant, exp) == IF BigBitLen(mant) = 0 THEN 0 ELSE BigBitLen(mant) - exp

\* the double nearest to sign * p * 2^-exp: the mantissa is rounded to
\* MantBits bits, ties to even; a result of 2^MaxExp or more is inf
RoundToDouble(sign, p, exp) ==
    LET s == BigBitLen(p) - MantBits
        q == BigShr(p, s)
        up == /\ BigBit(p, s - 1) = 1
              /\ (~BigLowZero(p, s - 1) \/ BigBit(q, 0) = 1)
        mant == IF s <= 0 THEN p ELSE IF up THEN BigAdd(q, <<1>>, 0) ELSE q
        e == IF s <= 0 THEN exp ELSE exp - s
    IN  IF IntBits(mant, e) > MaxExp THEN NonFinite ELSE Float(sign, mant, e)

\* n * x for an int n and a float x: n is converted exactly, the product is
\* rounded to a double; inf and nan give inf or nan
IntTimesFloat(n, x) ==
    IF ~IsFinite(x) THEN NonFinite
    ELSE RoundToDouble(IF n < 0 THEN -x[1] ELSE x[1],
                       BigMul(BigOfInt(Abs(n)), x[2]), x[3])

\* int(x) of a finite float: truncation toward zero
IntOfFloat(x) ==
    x[1] * BigToInt(IF x[3] >= 0 THEN BigShr(x[2], x[3]) ELSE BigShl(x[2], -x[3]))

\* max(lo, min(hi, int(x))) of a finite float, for lo <= hi below 2^30; an
\* int(x) of more than 30 bits is beyond hi or below lo
ClampedInt(x, lo, hi) ==
    IF IntBits(x[2], x[3]) > 30
    THEN (IF x[1] < 0 THEN lo ELSE hi)
    ELSE Max(lo, Min(hi, IntOfFloat(x)))

\* random.randint(a, b): any integer of a..b
RandInt(a, b) == a .. b

RECURSIVE SeqSum(_)
SeqSum(s) == IF s = <<>> THEN 0 ELSE Head(s) + SeqSum(Tail(s))

RECURSIVE SelectSeqBy(_, _, _)
\* [x for x in s if x[field-test]]: the notes of s whose track_idx is t
SelectSeqBy(s, t, i) ==
    IF i > Len(s) THEN <<>>
    ELSE (IF s[i].track_idx = t THEN <<s[i]>> ELSE <<>>) \o SelectSeqBy(s, t, i + 1)

SeqsUpTo(S, n) == UNION {[1..k -> S] : k \in 0..n}

(* ------------------------------------------------------------------ *)
(* Musical constants                                                    *)
(* ------------------------------------------------------------------ *)
\* SCALE_PATTERNS in declaration order: <<mode name, degrees>>
SCALE_PATTERNS ==
    << << <<"m","a","j","o","r">>,                      <<0, 2, 4, 5, 7, 9, 11>> >>,
       << <<"m","i","n","o","r">>,                      <<0, 2, 3, 5, 7, 8, 10>> >>,
       << <<"d","o","r","i","a","n">>,                  <<0, 2, 3, 5, 7, 9, 10>> >>,
       << <<"p","h","r","y","g","i","a","n">>,          <<0, 1, 3, 5, 7, 8, 10>> >>,
       << <<"l","y","d","i","a","n">>,                  <<0, 2, 4, 6, 7, 9, 11>> >>,
       << <<"m","i","x","o","l","y","d","i","a","n">>,  <<0, 2, 4, 5, 7, 9, 10>> >>,
       << <<"a","e","o","l","i","a","n">>,              <<0, 2, 3, 5, 7, 8, 10>> >>,
       << <<"l","o","c","r","i","a","n">>,              <<0, 1, 3, 5, 6, 8, 10>> >> >>

NOTE_NAMES ==
    << <<"C">>, <<"D","b">>, <<"D">>, <<"E","b">>, <<"E">>, <<"F">>,
       <<"G","b">>, <<"G">>, <<"A","b">>, <<"A">>, <<"B","b">>, <<"B">> >>

ModeNames == {SCALE_PATTERNS[i][1] : i \in DOMAIN SCALE_PATTERNS}

\* SCALE_PATTERNS[mode]
ScaleDegrees(mode) ==
    SCALE_PATTERNS[CHOOSE i \in DOMAIN SCALE_PATTERNS : SCALE_PATTERNS[i][1] = mode][2]

(* ------------------------------------------------------------------ *)
(* Data                                                                 *)
(* ------------------------------------------------------------------ *)
Msg(type, note, velocity, channel, time) ==
    [type |-> type, note |-> note, velocity |-> velocity, channel |-> channel,
     time |-> time]

NoteEvent(pitch, velocity, start_tick, end_tick, channel, track_idx, id) ==
    [pitch |-> pitch, velocity |-> velocity, start_tick |-> start_tick,
     end_tick |-> end_tick, channel |-> channel, track_idx |-> track_idx, id |-> id]

MidiFile(tpb, tracks) == [ticks_per_beat |-> tpb, tracks |-> tracks]

(* ------------------------------------------------------------------ *)
(* parse_notes                                                          *)
(* ------------------------------------------------------------------ *)
\* active_notes[key] = tick
ActivePut(active, key, tick) ==
    [k \in DOMAIN active \cup {key} |-> IF k = key THEN tick ELSE active[k]]

\* active_notes.pop(key): the dict without key
ActiveDel(active, key) == [k \in DOMAIN active \ {key} |-> active[k]]

\* velocity given to the NoteEvent built when msg closes a note
ClosedVelocity(msg) == IF msg.type = "note_on" THEN msg.velocity ELSE OffVelocity

\* one iteration of the loop over the messages of a track;
\* st = [tick, active, notes]
ParseMsg(st, msg, track_idx) ==
    LET tick == st.tick + msg.time
        key  == <<track_idx, msg.channel, msg.note>>
    IN  IF msg.type = "note_on" /\ msg.velocity > 0
        THEN [st EXCEPT !.tick = tick, !.active = ActivePut(@, key, tick)]
        ELSE IF msg.type = "note_off" \/ (msg.type = "note_on" /\ msg.velocity = 0)
        THEN IF key \in DOMAIN st.active
             THEN [tick   |-> tick,
                   active |-> ActiveDel(st.active, key),
                   notes  |-> Append(st.notes,
                                NoteEvent(msg.note, ClosedVelocity(msg), st.active[key],
                                          tick, msg.channel, track_idx,
                                          Len(st.notes) + 1))]
             ELSE [st EXCEPT !.tick = tick]
        ELSE [st EXCEPT !.tick = tick]

RECURSIVE ParseTrack(_, _, _, _)
ParseTrack(st, track, track_idx, i) ==
    IF i > Len(track) THEN st
    ELSE ParseTrack(ParseMsg(st, track[i], track_idx), track, track_idx, i + 1)

RECURSIVE ParseTracks(_, _, _)
\* the loop over enumerate(self.midi.tracks); current_tick restarts at 0 per track
ParseTracks(st, tracks, t) ==
    IF t > Len(tracks) THEN st
    ELSE ParseTracks(ParseTrack([st EXCEPT !.tick = 0], tracks[t], t - 1, 1),
                     tracks, t + 1)

parse_notes(tracks) ==
    ParseTracks([tick |-> 0, active |-> <<>>, notes |-> <<>>], tracks, 1).notes

(* ------------------------------------------------------------------ *)
(* reconstruct_midi                                                     *)
(* ------------------------------------------------------------------ *)
\* faulty variant of EventKeyLeq: the sort key is the tick alone
EventKeyLeqTickOnly(a, b) == a[1] <= b[1]

\* sort key of an event <<tick, kind, note>>: (tick, kind == 'note_off')
EventKeyLeq(a, b) ==
    \/ a[1] < b[1]
    \/ a[1] = b[1] /\ ((a[2] = "note_off") => (b[2] = "note_off"))

RECURSIVE InsertEvent(_, _)
\* stable insertion: x goes after every element whose key is <= its own
InsertEvent(sorted, x) ==
    IF sorted = <<>> THEN <<x>>
    ELSE IF EventKeyLeq(sorted[1], x) THEN <<sorted[1]>> \o InsertEvent(Tail(sorted), x)
    ELSE <<x>> \o sorted

RECURSIVE SortEvents(_, _)
\* events.sort(key=...): list.sort is stable
SortEvents(evs, i) ==
    IF i = 0 THEN <<>> ELSE InsertEvent(SortEvents(evs, i - 1), evs[i])

RECURSIVE NoteEvents(_, _)
\* two evs per note, in the order of the track's notes
NoteEvents(tnotes, i) ==
    IF i > Len(tnotes) THEN <<>>
    ELSE << <<tnotes[i].start_tick, "note_on", tnotes[i]>>,
            <<tnotes[i].end_tick, "note_off", tnotes[i]>> >> \o NoteEvents(tnotes, i + 1)

SortedEvents(tnotes) ==
    LET ev == NoteEvents(tnotes, 1) IN SortEvents(ev, Len(ev))

RECURSIVE EmitEvents(_, _, _)
\* the emission loop: delta = tick - current_tick
EmitEvents(evs, i, current_tick) ==
    IF i > Len(evs) THEN <<>>
    ELSE LET tick == evs[i][1]
             note == evs[i][3]
             m == IF evs[i][2] = "note_on"
                  THEN Msg("note_on", note.pitch, note.velocity, note.channel,
                           tick - current_tick)
                  ELSE Msg("note_off", note.pitch, 0, note.channel, tick - current_tick)
         IN  <<m>> \o EmitEvents(evs, i + 1, tick)

RECURSIVE MetaMessages(_, _)
\* the copies of the meta messages of a track, in order (time included)
MetaMessages(track, i) ==
    IF i > Len(track) THEN <<>>
    ELSE (IF track[i].type = "meta" THEN <<track[i]>> ELSE <<>>)
         \o MetaMessages(track, i + 1)

\* the new track built for track_idx (0-based)
ReconstructTrack(ns, tracks, track_idx) ==
    MetaMessages(tracks[track_idx + 1], 1)
    \o EmitEvents(SortedEvents(SelectSeqBy(ns, track_idx, 1)), 1, 0)

reconstruct_midi(ns, tracks) ==
    [t \in 1..Len(tracks) |-> ReconstructTrack(ns, tracks, t - 1)]

(* ------------------------------------------------------------------ *)
(* Timing stages                                                        *)
(* ------------------------------------------------------------------ *)
\* division is <<numerator, denominator>> of the string 'N/D'
get_quantize_ticks(tpb, division) == PyInt(tpb * 4 * division[1], division[2])

quantize_tick(tick, grid_ticks) == PyRound(tick, grid_ticks) * grid_ticks

\* the body of the quantize loop of process() for one note
QuantizeNote(n, grid_ticks) ==
    LET duration == n.end_tick - n.start_tick
        start == quantize_tick(n.start_tick, grid_ticks)
    IN  [n EXCEPT !.start_tick = start, !.end_tick = start + duration]

RECURSIVE InsertByStart(_, _)
InsertByStart(sorted, x) ==
    IF sorted = <<>> THEN <<x>>
    ELSE IF sorted[1].start_tick <= x.start_tick
         THEN <<sorted[1]>> \o InsertByStart(Tail(sorted), x)
    ELSE <<x>> \o sorted

RECURSIVE SortByStart(_, _)
\* sorted(ns, key=lambda n: n.start_tick): stable
SortByStart(ns, i) ==
    IF i = 0 THEN <<>> ELSE InsertByStart(SortByStart(ns, i - 1), ns[i])

RECURSIVE Clusters(_, _, _, _)
\* the clustering sweep: done = clusters, cur = current_cluster
Clusters(sorted, i, done, cur) ==
    IF i > Len(sorted) THEN Append(done, cur)
    ELSE IF sorted[i].start_tick - cur[Len(cur)].start_tick <= WindowTicks
         THEN Clusters(sorted, i + 1, done, Append(cur, sorted[i]))
    ELSE Clusters(sorted, i + 1, Append(done, cur), <<sorted[i]>>)

\* a cluster with every member moved to the mean onset
AlignCluster(cluster) ==
    IF Len(cluster) > 1
    THEN LET mean_onset ==
                 SeqSum([k \in 1..Len(cluster) |-> cluster[k].start_tick])
                 \div Len(cluster)
         IN  [k \in 1..Len(cluster) |->
                 [cluster[k] EXCEPT
                     !.start_tick = mean_onset,
                     !.end_tick = mean_onset + (cluster[k].end_tick - cluster[k].start_tick)]]
    ELSE cluster

RECURSIVE Flatten(_, _)
Flatten(ss, i) == IF i > Len(ss) THEN <<>> ELSE ss[i] \o Flatten(ss, i + 1)

straighten_chords(ns) ==
    IF ns = <<>> THEN ns
    ELSE LET sorted == SortByStart(ns, Len(ns))
             cl == Clusters(sorted, 2, <<>>, <<sorted[1]>>)
         IN  Flatten([c \in 1..Len(cl) |-> AlignCluster(cl[c])], 1)

\* beat_position >= grid_ticks * 0.9: the double 0.9 is 8106479329266893 * 2^-53,
\* the product is rounded to a double and compared with the int exactly
OffBeat(beat_position, grid_ticks) ==
    LET nine_tenths == Float(1, <<19661, 6553, 13107, 230>>, 53)
        limit == IntTimesFloat(grid_ticks, nine_tenths)
        whole == IntOfFloat(limit)
        exact == limit[3] <= 0 \/ BigLowZero(limit[2], limit[3])
    IN  IF exact THEN beat_position >= whole ELSE beat_position > whole

\* the body of the apply_swing loop for one note; swing_amount is a finite float
SwingNote(n, grid_ticks, swing_amount) ==
    LET beat_position == n.start_tick % (grid_ticks * 2)
    IN  IF OffBeat(beat_position, grid_ticks)
        THEN LET offset == IntOfFloat(IntTimesFloat(grid_ticks, swing_amount))
                 duration == n.end_tick - n.start_tick
             IN  [n EXCEPT !.start_tick = n.start_tick + offset,
                           !.end_tick = n.start_tick + offset + duration]
        ELSE n

\* apply_swing raises: a grid of 0 makes the first note's % divide by zero,
\* and int(grid_ticks * swing_amount) raises at the first off-beat note when
\* the product is inf or nan
SwingRaises(ns, tpb, swing_amount) ==
    LET grid_ticks == get_quantize_ticks(tpb, <<1, 16>>)
    IN  /\ ns # <<>>
        /\ \/ grid_ticks = 0
           \/ /\ ~IsFinite(IntTimesFloat(grid_ticks, swing_amount))
              /\ \E i \in 1..Len(ns) :
                     OffBeat(ns[i].start_tick % (grid_ticks * 2), grid_ticks)

apply_swing(ns, tpb, swing_amount) ==
    LET grid_ticks == get_quantize_ticks(tpb, <<1, 16>>)
    IN  [i \in 1..Len(ns) |-> SwingNote(ns[i], grid_ticks, swing_amount)]

\* offsets[i] is the random.randint(-amount, amount) drawn for note i
humanize_timing(ns, offsets) ==
    [i \in 1..Len(ns) |->
        LET duration == ns[i].end_tick - ns[i].start_tick
            start == Max(0, ns[i].start_tick + offsets[i])
        IN  [ns[i] EXCEPT !.start_tick = start, !.end_tick = start + duration]]

(* ------------------------------------------------------------------ *)
(* Velocity stages                                                      *)
(* ------------------------------------------------------------------ *)
\* the body of the scale_velocity loop for one note
ScaleNote(n, scale) ==
    [n EXCEPT !.velocity = ClampedInt(IntTimesFloat(@, scale), 1, 127)]

\* the notes at which int(note.velocity * scale) raises: the product is inf
\* or nan
ScaleRaises(ns, scale) ==
    {i \in 1..Len(ns) : ~IsFinite(IntTimesFloat(ns[i].velocity, scale))}

\* the notes as the loop leaves them: it stops at the first note that raises
scale_velocity(ns, scale) ==
    [i \in 1..Len(ns) |->
        IF \E k \in ScaleRaises(ns, scale) : k <= i THEN ns[i]
        ELSE ScaleNote(ns[i], scale)]

clamp_velocity(ns, min_vel, max_vel) ==
    [i \in 1..Len(ns) |-> [ns[i] EXCEPT !.velocity = Max(min_vel, Min(max_vel, @))]]

humanize_velocity(ns, offsets) ==
    [i \in 1..Len(ns) |-> [ns[i] EXCEPT !.velocity = Max(1, Min(127, @ + offsets[i]))]]

(* ------------------------------------------------------------------ *)
(* Key resolution and scale forcing                                     *)
(* ------------------------------------------------------------------ *)
\* the characters of a key string: printable ASCII without the grave accent,
\* which no string of the model can hold
AsciiChars ==
    <<" ","!","\"","#","$","%","&","'","(",")","*","+",",",
      "-",".","/","0","1","2","3","4","5","6","7","8","9",
      ":",";","<","=",">","?","@","A","B","C","D","E","F",
      "G","H","I","J","K","L","M","N","O","P","Q","R","S",
      "T","U","V","W","X","Y","Z","[","\\","]","^","_",
      "a","b","c","d","e","f","g","h","i","j","k","l","m",
      "n","o","p","q","r","s","t","u","v","w","x","y","z",
      "{","|","}","~">>

\* c.lower() for each character of AsciiChars, in the same order
AsciiLower ==
    <<" ","!","\"","#","$","%","&","'","(",")","*","+",",",
      "-",".","/","0","1","2","3","4","5","6","7","8","9",
      ":",";","<","=",">","?","@","a","b","c","d","e","f",
      "g","h","i","j","k","l","m","n","o","p","q","r","s",
      "t","u","v","w","x","y","z","[","\\","]","^","_",
      "a","b","c","d","e","f","g","h","i","j","k","l","m",
      "n","o","p","q","r","s","t","u","v","w","x","y","z",
      "{","|","}","~">>

\* c.lower() as a function of the character
LowerOf ==
    [c \in {AsciiChars[i] : i \in DOMAIN AsciiChars} |->
        AsciiLower[CHOOSE i \in DOMAIN AsciiChars : AsciiChars[i] = c]]

\* str.lower() on one character of AsciiChars; a character outside
\* AsciiChars has no value here
LowerChar(c) == LowerOf[c]

\* key_str.replace(' ', '').lower()
Normalize(str) ==
    LET nosp == SelectSeq(str, LAMBDA c : c # " ")
    IN  [i \in 1..Len(nosp) |-> LowerChar(nosp[i])]

\* str.endswith(suffix)
EndsWith(str, suffix) ==
    /\ Len(suffix) <= Len(str)
    /\ SubSeq(str, Len(str) - Len(suffix) + 1, Len(str)) = suffix

\* the modes whose name ends the normalized key, as indexes of SCALE_PATTERNS
MatchingModes(key) == {i \in DOMAIN SCALE_PATTERNS : EndsWith(key, SCALE_PATTERNS[i][1])}

\* the mode the loop over SCALE_PATTERNS.keys() stops at: the first that matches
FirstMatch(key) == CHOOSE i \in MatchingModes(key) : \A j \in MatchingModes(key) : i <= j

\* root_map.get(name, 0)
RootOf(name) ==
    IF \E i \in DOMAIN NOTE_NAMES : Normalize(NOTE_NAMES[i]) = name
    THEN (CHOOSE i \in DOMAIN NOTE_NAMES : Normalize(NOTE_NAMES[i]) = name) - 1
    ELSE 0

\* returns <<root, mode>>
parse_key(key_str) ==
    LET key == Normalize(key_str)
    IN  IF MatchingModes(key) = {}
        THEN <<RootOf(key), <<"m","a","j","o","r">> >>
        ELSE LET mode == SCALE_PATTERNS[FirstMatch(key)][1]
             IN  <<RootOf(SubSeq(key, 1, Len(key) - Len(mode))), mode>>

\* scale_notes = [(root + degree) % 12 for degree in scale_degrees]
ScaleNotes(root, mode) ==
    LET deg == ScaleDegrees(mode) IN [i \in 1..Len(deg) |-> (root + deg[i]) % 12]

\* distances.sort(); distances[0][1]: tuples (abs(pitch_class - sc), sc) sort
\* by distance and then by sc, so the first is the least sc at least distance
Nearest(pitch_class, scale_notes) ==
    LET scs == {scale_notes[i] : i \in DOMAIN scale_notes}
    IN  CHOOSE sc \in scs :
            \A o \in scs :
                \/ Abs(pitch_class - sc) < Abs(pitch_class - o)
                \/ Abs(pitch_class - sc) = Abs(pitch_class - o) /\ sc <= o

\* the pitch force_to_scale leaves a note of this pitch with
ForcedPitch(pitch, root, mode) ==
    LET scale_notes == ScaleNotes(root, mode)
        pitch_class == pitch % 12
    IN  IF \E i \in DOMAIN scale_notes : scale_notes[i] = pitch_class
        THEN pitch
        ELSE LET raw == Nearest(pitch_class, scale_notes) - pitch_class
                 shift == IF raw > 6 THEN raw - 12
                          ELSE IF raw < -6 THEN raw + 12 ELSE raw
             IN  Max(0, Min(127, pitch + shift))

force_to_scale(ns, root, mode) ==
    [i \in 1..Len(ns) |-> [ns[i] EXCEPT !.pitch = ForcedPitch(@, root, mode)]]

(* ------------------------------------------------------------------ *)
(* Reconstruction stages                                                *)
(* ------------------------------------------------------------------ *)
RECURSIVE Dedupe(_, _, _)
\* the deduplicate loop: seen is the set of keys met so far
Dedupe(ns, i, seen) ==
    IF i > Len(ns) THEN <<>>
    ELSE LET key == <<ns[i].pitch, ns[i].start_tick, ns[i].channel>>
         IN  IF key \notin seen
             THEN <<ns[i]>> \o Dedupe(ns, i + 1, seen \cup {key})
             ELSE Dedupe(ns, i + 1, seen)

deduplicate(ns) == Dedupe(ns, 1, {})

RECURSIVE GroupKeys(_, _, _)
\* the keys of pitch_groups in insertion order
GroupKeys(ns, i, keys) ==
    IF i > Len(ns) THEN keys
    ELSE LET key == <<ns[i].channel, ns[i].pitch>>
         IN  IF \E k \in DOMAIN keys : keys[k] = key
             THEN GroupKeys(ns, i + 1, keys)
             ELSE GroupKeys(ns, i + 1, Append(keys, key))

\* pitch_groups[key]
PitchGroup(ns, key) == SelectSeq(ns, LAMBDA n : <<n.channel, n.pitch>> = key)

RECURSIVE LegatoPass(_, _)
\* the loop over range(len(sorted_group) - 1), from index i (1-based)
LegatoPass(group, i) ==
    IF i > Len(group) - 1 THEN group
    ELSE IF group[i].end_tick > group[i + 1].start_tick
         THEN LegatoPass([group EXCEPT ![i].end_tick = group[i + 1].start_tick], i + 1)
    ELSE LegatoPass(group, i + 1)

\* faulty variant of FixGroup: the group is trimmed in list order, unsorted
FixGroupUnsorted(group) == LegatoPass(group, 1)

\* one group after sorting and trimming
FixGroup(group) == LegatoPass(SortByStart(group, Len(group)), 1)

fix_legato(ns) ==
    LET keys == GroupKeys(ns, 1, <<>>)
    IN  Flatten([k \in 1..Len(keys) |-> FixGroup(PitchGroup(ns, keys[k]))], 1)

(* ------------------------------------------------------------------ *)
(* Inputs                                                               *)
(* ------------------------------------------------------------------ *)
\* note messages on one key; a note_off carries mido's default velocity
NoteMsgs ==
    {Msg("note_on", 60, v, 0, t) : v \in {0, 100}, t \in 0..MaxTime}
    \cup {Msg("note_off", 60, OffVelocity, 0, t) : t \in 0..MaxTime}

MetaMsgs == {Msg("meta", 0, 0, 0, t) : t \in 0..MaxTime}

\* --quantize values 'N/D' as <<N, D>>
Divisions == {<<1, 4>>, <<1, 16>>, <<1, 64>>}

\* --swing values: -2.0, 0.5, 1.5
SwingAmounts == {Float(-1, <<2>>, 0), Float(1, <<1>>, 1), Float(1, <<3>>, 1)}

\* --vel-scale values: 0.0, 0.5, 2.0 and 0.29 (5224175567749775 * 2^-54)
VelScales ==
    {Float(1, <<>>, 0), Float(1, <<1>>, 1), Float(1, <<2>>, 0),
     Float(1, <<17039, 20971, 15728, 148>>, 54)}

\* --vel-clamp MIN MAX
VelClamps == {<<40, 100>>, <<80, 40>>, <<0, 0>>, <<128, 200>>}

\* --force-key values
ForceKeys ==
    { <<"C">> \o <<"m","a","j","o","r">>,
      <<"D", " ">> \o <<"M","i","n","o","r">>,
      <<"E","b">> \o <<"m","i","x","o","l","y","d","i","a","n">> }

(* ------------------------------------------------------------------ *)
(* Steps of a run: main() calls process(), then reconstruct_midi        *)
(* ------------------------------------------------------------------ *)
\* a stage ends: the store it leaves, the value it read, the next position
StageDone(ns, a, next) ==
    /\ notes' = ns
    /\ before' = notes
    /\ arg' = a
    /\ pc' = next
    /\ UNCHANGED <<midi, events, new_midi, result>>

ParseNotes ==
    /\ pc = "parse"
    /\ StageDone(parse_notes(midi.tracks), None, "straighten")

Straighten(on) ==
    /\ pc = "straighten"
    /\ StageDone(IF on = On THEN straighten_chords(notes) ELSE notes, on, "quantize")

\* q is None or a division; a grid of 0 makes quantize_tick divide by zero on
\* the first note, which ends the run
Quantize(q) ==
    /\ pc = "quantize"
    /\ IF q = None THEN StageDone(notes, q, "swing")
       ELSE LET grid_ticks == get_quantize_ticks(midi.ticks_per_beat, q)
            IN  IF grid_ticks = 0
                THEN StageDone(notes, q, IF notes = <<>> THEN "swing" ELSE "failed")
                ELSE StageDone([i \in 1..Len(notes) |-> QuantizeNote(notes[i], grid_ticks)],
                               q, "swing")

\* amount is None or a float; 0.0 is falsy and skips the stage
Swing(amount) ==
    /\ pc = "swing"
    /\ IF amount = None \/ ~Truthy(amount) THEN StageDone(notes, amount, "humanize")
       ELSE IF SwingRaises(notes, midi.ticks_per_beat, amount)
            THEN StageDone(notes, amount, "failed")
       ELSE StageDone(apply_swing(notes, midi.ticks_per_beat, amount), amount, "humanize")

Humanize(on) ==
    /\ pc = "humanize"
    /\ IF on = On
       THEN \E offsets \in [1..Len(notes) -> RandInt(-HumanizeAmount, HumanizeAmount)] :
                StageDone(humanize_timing(notes, offsets), on, "vel_scale")
       ELSE StageDone(notes, on, "vel_scale")

\* scale is None or a float; 0.0 is falsy and skips the stage; a note
\* whose product is inf or nan ends the run, the notes before it scaled
VelScale(scale) ==
    /\ pc = "vel_scale"
    /\ IF scale = None \/ ~Truthy(scale) THEN StageDone(notes, scale, "vel_clamp")
       ELSE StageDone(scale_velocity(notes, scale), scale,
                      IF ScaleRaises(notes, scale) = {} THEN "vel_clamp" ELSE "failed")

VelClamp(clamp) ==
    /\ pc = "vel_clamp"
    /\ StageDone(IF clamp = None THEN notes
                 ELSE clamp_velocity(notes, clamp[1], clamp[2]),
                 clamp, "vel_human")

VelHuman(on) ==
    /\ pc = "vel_human"
    /\ IF on = On
       THEN \E offsets \in [1..Len(notes) -> RandInt(-HumanizeVariance, HumanizeVariance)] :
                StageDone(humanize_velocity(notes, offsets), on, "force_key")
       ELSE StageDone(notes, on, "force_key")

ForceKey(key) ==
    /\ pc = "force_key"
    /\ StageDone(IF key = None THEN notes
                 ELSE force_to_scale(notes, parse_key(key)[1], parse_key(key)[2]),
                 key, "dedupe")

Deduplicate(on) ==
    /\ pc = "dedupe"
    /\ StageDone(IF on = On THEN deduplicate(notes) ELSE notes, on, "legato_fix")

LegatoFix(on) ==
    /\ pc = "legato_fix"
    /\ StageDone(IF on = On THEN fix_legato(notes) ELSE notes, on, "done")

\* a Message whose velocity is no data byte cannot be built: the run ends
Reconstruct ==
    /\ pc = "done"
    /\ IF \A i \in 1..Len(notes) : notes[i].velocity \in 0..MaxPitch
       THEN /\ new_midi' = reconstruct_midi(notes, midi.tracks)
            /\ events' = [t \in 1..Len(midi.tracks) |->
                             SortedEvents(SelectSeqBy(notes, t - 1, 1))]
            /\ pc' = "reconstructed"
       ELSE /\ pc' = "failed"
            /\ UNCHANGED <<new_midi, events>>
    /\ UNCHANGED <<midi, notes, before, arg, result>>

\* the reconstructed file read again: parse_notes on its tracks
Reparse ==
    /\ pc = "reconstructed"
    /\ result' = parse_notes(new_midi)
    /\ pc' = "reparsed"
    /\ UNCHANGED <<midi, notes, before, arg, events, new_midi>>

(* ------------------------------------------------------------------ *)
(* Spec: a run with any flags on a one-track file                       *)
(* ------------------------------------------------------------------ *)
Idle(m, position, ns) ==
    /\ midi = m
    /\ pc = position
    /\ notes = ns
    /\ before = <<>>
    /\ arg = None
    /\ events = <<>>
    /\ new_midi = <<>>
    /\ result = None

Init ==
    \E t \in SeqsUpTo(NoteMsgs, MaxProcMsgs) :
        Idle(MidiFile(TicksPerBeat, <<t>>), "parse", <<>>)

Next ==
    \/ ParseNotes
    \/ \E on \in {On, None} : Straighten(on)
    \/ \E q \in Divisions \cup {None} : Quantize(q)
    \/ \E amount \in SwingAmounts \cup {None} : Swing(amount)
    \/ \E on \in {On, None} : Humanize(on)
    \/ \E scale \in VelScales \cup {None} : VelScale(scale)
    \/ \E clamp \in VelClamps \cup {None} : VelClamp(clamp)
    \/ \E on \in {On, None} : VelHuman(on)
    \/ \E key \in ForceKeys \cup {None} : ForceKey(key)
    \/ \E on \in {On, None} : Deduplicate(on)
    \/ \E on \in {On, None} : LegatoFix(on)
    \/ Reconstruct

Spec == Init /\ [][Next]_vars

(* ------------------------------------------------------------------ *)
(* SpecRoundTrip: a run with no flags on a one-track file with meta     *)
(* events, whose output is parsed again                                 *)
(* ------------------------------------------------------------------ *)
InitRoundTrip ==
    \E t \in SeqsUpTo(NoteMsgs \cup MetaMsgs, MaxMsgs) :
        Idle(MidiFile(TicksPerBeat, <<t>>), "parse", <<>>)

NextRoundTrip ==
    \/ ParseNotes
    \/ Straighten(None)
    \/ Quantize(None)
    \/ Swing(None)
    \/ Humanize(None)
    \/ VelScale(None)
    \/ VelClamp(None)
    \/ VelHuman(None)
    \/ ForceKey(None)
    \/ Deduplicate(None)
    \/ LegatoFix(None)
    \/ Reconstruct
    \/ Reparse

SpecRoundTrip == InitRoundTrip /\ [][NextRoundTrip]_vars

(* ------------------------------------------------------------------ *)
(* Enumerated Note Stores                                               *)
(* ------------------------------------------------------------------ *)
\* notes without identity, <<<<pitch, track_idx>>, start_tick, end_tick>>,
\* with 0 <= start_tick <= end_tick
StoreNotes(voices, starts, durations) ==
    {<<v, s, s + d>> : v \in voices, s \in starts, d \in durations}

\* the Note Store of the notes given, in list order
StoreOf(xs) ==
    [i \in 1..Len(xs) |->
        NoteEvent(xs[i][1][1], OffVelocity, xs[i][2], xs[i][3], 0, xs[i][1][2], i)]

\* the file the enumerated stores belong to: a meta event on the first track
StoreMidi == MidiFile(TicksPerBeat, << <<Msg("meta", 0, 0, 0, 1)>>, <<>> >>)

\* intervals with both ends in 0..MaxTick
TickNotes(voices) ==
    {x \in StoreNotes(voices, 0..MaxTick, 0..MaxTick) : x[3] <= MaxTick}

(* ------------------------------------------------------------------ *)
(* SpecTiming: the timing stages on any small Note Store                *)
(* ------------------------------------------------------------------ *)
\* onsets on and off the 1/16 and 1/4 grids, inside and outside the window
TimingStarts == {0, 1, 3, 4, 12, 30}

InitTiming ==
    \E xs \in SeqsUpTo(StoreNotes({<<60, 0>>}, TimingStarts, 0..1), MaxTimingNotes) :
        Idle(StoreMidi, "straighten", StoreOf(xs))

NextTiming ==
    \/ \E on \in {On, None} : Straighten(on)
    \/ \E q \in Divisions \cup {None} : Quantize(q)
    \/ \E amount \in SwingAmounts \cup {None} : Swing(amount)
    \/ \E on \in {On, None} : Humanize(on)

SpecTiming == InitTiming /\ [][NextTiming]_vars

(* ------------------------------------------------------------------ *)
(* SpecLegato: deduplicate and fix_legato on any small Note Store       *)
(* ------------------------------------------------------------------ *)
InitLegato ==
    \E xs \in SeqsUpTo(TickNotes({<<60, 0>>, <<61, 0>>}), MaxStore) :
        Idle(StoreMidi, "dedupe", StoreOf(xs))

NextLegato ==
    \/ \E on \in {On, None} : Deduplicate(on)
    \/ \E on \in {On, None} : LegatoFix(on)

SpecLegato == InitLegato /\ [][NextLegato]_vars

(* ------------------------------------------------------------------ *)
(* SpecReconstruct: reconstruct_midi on any small Note Store of a       *)
(* two-track file                                                       *)
(* ------------------------------------------------------------------ *)
InitReconstruct ==
    \E xs \in SeqsUpTo(TickNotes({<<60, 0>>, <<60, 1>>}), MaxStore) :
        Idle(StoreMidi, "done", StoreOf(xs))

NextReconstruct == Reconstruct

SpecReconstruct == InitReconstruct /\ [][NextReconstruct]_vars

(* ------------------------------------------------------------------ *)
(* SpecScale: force_to_scale called with any root and mode on a note    *)
(* of any pitch                                                         *)
(* ------------------------------------------------------------------ *)
ForceToScale(root, mode) ==
    /\ pc = "force_to_scale"
    /\ StageDone(force_to_scale(notes, root, mode), <<root, mode>>, "returned")

InitScale ==
    \E pitch \in 0..MaxPitch :
        Idle(StoreMidi, "force_to_scale",
             <<NoteEvent(pitch, OffVelocity, 0, 1, 0, 0, 1)>>)

NextScale == \E root \in 0..11, mode \in ModeNames : ForceToScale(root, mode)

SpecScale == InitScale /\ [][NextScale]_vars

(* ------------------------------------------------------------------ *)
(* SpecKey: parse_key called on the name of every root and mode         *)
(* ------------------------------------------------------------------ *)
ParseKey ==
    /\ pc = "parse_key"
    /\ result' = parse_key(arg)
    /\ pc' = "returned"
    /\ UNCHANGED <<midi, notes, before, arg, events, new_midi>>

\* 'Dminor', and the same with a space: 'D minor'
KeyStrings ==
    {NOTE_NAMES[r] \o m : r \in DOMAIN NOTE_NAMES, m \in ModeNames}
    \cup {NOTE_NAMES[r] \o <<" ">> \o m : r \in DOMAIN NOTE_NAMES, m \in ModeNames}

InitKey ==
    /\ arg \in KeyStrings
    /\ midi = StoreMidi
    /\ pc = "parse_key"
    /\ notes = <<>>
    /\ before = <<>>
    /\ events = <<>>
    /\ new_midi = <<>>
    /\ result = None

NextKey == ParseKey

SpecKey == InitKey /\ [][NextKey]_vars

(* ================================================================== *)
(* Claims                                                               *)
(* ================================================================== *)

(* ------------------------------------------------------------------ *)
(* Pairing by a stack per key, as the specification describes it        *)
(* ------------------------------------------------------------------ *)
\* one message under the stack discipline; st = [tick, open, out], open maps
\* a key to the sequence of its still-open onsets, most recent last
StackMsg(st, msg, track_idx) ==
    LET tick == st.tick + msg.time
        key  == <<track_idx, msg.channel, msg.note>>
        stack == IF key \in DOMAIN st.open THEN st.open[key] ELSE <<>>
    IN  IF msg.type = "note_on" /\ msg.velocity > 0
        THEN [st EXCEPT !.tick = tick, !.open = ActivePut(@, key, Append(stack, tick))]
        ELSE IF msg.type = "note_off" \/ (msg.type = "note_on" /\ msg.velocity = 0)
        THEN IF stack # <<>>
             THEN [tick |-> tick,
                   open |-> ActivePut(st.open, key, SubSeq(stack, 1, Len(stack) - 1)),
                   out  |-> Append(st.out, <<msg.note, stack[Len(stack)], tick,
                                             msg.channel, track_idx>>)]
             ELSE [st EXCEPT !.tick = tick]
        ELSE [st EXCEPT !.tick = tick]

RECURSIVE StackTrack(_, _, _, _)
StackTrack(st, track, track_idx, i) ==
    IF i > Len(track) THEN st
    ELSE StackTrack(StackMsg(st, track[i], track_idx), track, track_idx, i + 1)

RECURSIVE StackTracks(_, _, _)
StackTracks(st, tracks, t) ==
    IF t > Len(tracks) THEN st
    ELSE StackTracks(StackTrack([st EXCEPT !.tick = 0], tracks[t], t - 1, 1),
                     tracks, t + 1)

\* the notes a stack per key pairs, as <<pitch, start, end, channel, track>>
StackPairs(tracks) ==
    StackTracks([tick |-> 0, open |-> <<>>, out |-> <<>>], tracks, 1).out

Interval(n) == <<n.pitch, n.start_tick, n.end_tick, n.channel, n.track_idx>>

Range(f) == {f[i] : i \in DOMAIN f}

\* C1: after parse_notes the Note Store holds exactly the notes that pairing
\* every closing event with the most recent still-open note-on of its key
\* (a stack per key) yields: one note per closing event that finds one open.
C1_StackPairing ==
    pc = "straighten" =>
        /\ Len(notes) = Len(StackPairs(midi.tracks))
        /\ {Interval(notes[i]) : i \in DOMAIN notes} = Range(StackPairs(midi.tracks))

(* ------------------------------------------------------------------ *)
Tuple(n) == <<n.pitch, n.start_tick, n.end_tick, n.channel>>

\* C2: with no transform active, parsing the reconstructed file gives the
\* same set of (pitch, start_tick, end_tick, channel) tuples as parsing the
\* input did.
C2_RoundTrip ==
    pc = "reparsed" =>
        {Tuple(result[i]) : i \in DOMAIN result} = {Tuple(notes[i]) : i \in DOMAIN notes}

(* ------------------------------------------------------------------ *)
\* C3: after parse_notes and after every stage of process(), every note of
\* the Note Store has velocity in 1..127 and pitch in 0..127.
C3_Ranges ==
    pc \in {"straighten", "quantize", "swing", "humanize", "vel_scale", "vel_clamp",
            "vel_human", "force_key", "dedupe", "legato_fix", "done"} =>
        \A i \in DOMAIN notes :
            /\ notes[i].velocity \in 1..127
            /\ notes[i].pitch \in 0..127

(* ------------------------------------------------------------------ *)
IsCloser(msg) ==
    msg.type = "note_off" \/ (msg.type = "note_on" /\ msg.velocity = 0)

\* the other spelling of a closing event: same note, channel and delta
OtherCloser(msg) ==
    IF msg.type = "note_off"
    THEN Msg("note_on", msg.note, 0, msg.channel, msg.time)
    ELSE Msg("note_off", msg.note, OffVelocity, msg.channel, msg.time)

\* C4: replacing any one closing event of the input by its other spelling
\* (note_off <-> note_on with velocity 0) leaves the list parse_notes
\* returns the same, field for field.
C4_ZeroVelocityIsOff ==
    pc = "straighten" =>
        \A t \in DOMAIN midi.tracks : \A i \in DOMAIN midi.tracks[t] :
            IsCloser(midi.tracks[t][i]) =>
                parse_notes([midi.tracks EXCEPT ![t][i] = OtherCloser(@)]) = notes

(* ------------------------------------------------------------------ *)
WellFormed(ns) ==
    \A i \in DOMAIN ns : 0 <= ns[i].start_tick /\ ns[i].start_tick <= ns[i].end_tick

Duration(n) == n.end_tick - n.start_tick

\* C5: a timing stage (straighten, quantize, swing, humanize) that has run
\* on a store with 0 <= start_tick <= end_tick kept every note, left each
\* note's duration as it was and left no start_tick below 0.
C5_TimingStages ==
    (pc \in {"quantize", "swing", "humanize", "vel_scale"} /\ WellFormed(before)) =>
        /\ Len(notes) = Len(before)
        /\ \A i \in DOMAIN before : \E j \in DOMAIN notes :
               /\ notes[j].id = before[i].id
               /\ Duration(notes[j]) = Duration(before[i])
               /\ notes[j].start_tick >= 0

(* ------------------------------------------------------------------ *)
\* n / d rounded to the nearest integer, an exact half away from zero (n >= 0)
RoundHalfAway(n, d) == (2 * n + d) \div (2 * d)

\* C8: the quantize step replaces every start_tick by the nearest multiple
\* of the grid, an exact half rounded up, and sets end_tick to the new
\* start plus the note's duration.
C8_QuantizeHalfAway ==
    (pc = "swing" /\ arg \in Divisions
        /\ get_quantize_ticks(midi.ticks_per_beat, arg) > 0) =>
        LET grid == get_quantize_ticks(midi.ticks_per_beat, arg)
        IN  \A i \in DOMAIN before :
                /\ notes[i].start_tick = RoundHalfAway(before[i].start_tick, grid) * grid
                /\ notes[i].end_tick = notes[i].start_tick + Duration(before[i])

(* ------------------------------------------------------------------ *)
\* C10: for every root name and every declared mode name, parse_key of the
\* root name followed by the mode name returns that root's pitch class and
\* that mode.
C10_EveryModeSelectable ==
    pc = "returned" =>
        \A r \in DOMAIN NOTE_NAMES : \A m \in ModeNames :
            arg = NOTE_NAMES[r] \o m => result = <<r - 1, m>>

(* ------------------------------------------------------------------ *)
SameGroup(a, b) == a.channel = b.channel /\ a.pitch = b.pitch

\* the note of store ns that has this identity
ById(ns, id) == ns[CHOOSE i \in DOMAIN ns : ns[i].id = id]

\* C6: after fix_legato every (channel, pitch) group is in start_tick order
\* in the returned list and no note of a group ends after a later note of
\* the group starts; the pass keeps every note and only lowers end_tick.
C6_LegatoPostcondition ==
    (pc = "done" /\ arg = On) =>
        /\ \A i \in DOMAIN notes : \A j \in DOMAIN notes :
               (i < j /\ SameGroup(notes[i], notes[j])) =>
                   /\ notes[i].start_tick <= notes[j].start_tick
                   /\ notes[i].end_tick <= notes[j].start_tick
        /\ Len(notes) = Len(before)
        /\ \A i \in DOMAIN before : \E j \in DOMAIN notes :
               /\ notes[j] = [before[i] EXCEPT !.end_tick = notes[j].end_tick]
               /\ notes[j].end_tick <= before[i].end_tick

\* C6 witness: a group of three notes of which the first two were truncated
\* by the same pass, the first having reached into the third
C6_CascadeTruncated ==
    /\ pc = "done"
    /\ arg = On
    /\ \E i \in DOMAIN notes : \E j \in DOMAIN notes : \E k \in DOMAIN notes :
           /\ i < j /\ j < k
           /\ SameGroup(notes[i], notes[j]) /\ SameGroup(notes[j], notes[k])
           /\ notes[i].start_tick < notes[j].start_tick
           /\ notes[i].end_tick < ById(before, notes[i].id).end_tick
           /\ notes[j].end_tick < ById(before, notes[j].id).end_tick
           /\ ById(before, notes[i].id).end_tick > notes[k].start_tick

(* ------------------------------------------------------------------ *)
\* the scale's pitch classes and those nearest to pitch class pcl
ScaleSet(root, mode) == {(root + d) % 12 : d \in Range(ScaleDegrees(mode))}

NearestSet(pcl, root, mode) ==
    {sc \in ScaleSet(root, mode) :
        \A o \in ScaleSet(root, mode) : Abs(pcl - sc) <= Abs(pcl - o)}

SetMin(S) == CHOOSE x \in S : \A y \in S : x <= y

\* the first of the nearest tones in the order of the scale's degree list
FirstByDegree(pcl, root, mode) ==
    LET sn == ScaleNotes(root, mode)
    IN  sn[SetMin({i \in DOMAIN sn : sn[i] \in NearestSet(pcl, root, mode)})]

Wrap(shift) == IF shift > 6 THEN shift - 12 ELSE IF shift < -6 THEN shift + 12 ELSE shift

\* C7 as stated: a note outside the scale moves to the first of its nearest
\* scale tones in ascending-degree order, by the shift wrapped into [-6, 6].
C7_TieBreakDegreeOrder ==
    pc = "returned" =>
        LET p == before[1].pitch
            pcl == p % 12
        IN  pcl \notin ScaleSet(arg[1], arg[2]) =>
                notes[1].pitch = p + Wrap(FirstByDegree(pcl, arg[1], arg[2]) - pcl)

(* ------------------------------------------------------------------ *)
\* the positions of events list ev that hold x
Positions(ev, x) == {k \in DOMAIN ev : ev[k] = x}

MetaCount(track) == Len(MetaMessages(track, 1))

\* C9: for every track, the sorted events list holds each note's note_on and
\* note_off once, in non-decreasing tick order, no note_off before a note_on
\* of the same tick and each note's note_on before its own note_off; the
\* messages emitted after the meta events are these events in this order,
\* each with the tick difference from the one before (from 0 for the first)
\* as its time, which is never negative.
C9_SerializationOrder ==
    pc = "reconstructed" =>
        \A t \in DOMAIN midi.tracks :
            LET ev == events[t]
                out == new_midi[t]
                metas == MetaCount(midi.tracks[t])
                tn == {notes[i] : i \in {i \in DOMAIN notes : notes[i].track_idx = t - 1}}
            IN  /\ Len(ev) = 2 * Cardinality(tn)
                /\ \A n \in tn :
                       \E a \in DOMAIN ev : \E b \in DOMAIN ev :
                           /\ a < b
                           /\ Positions(ev, <<n.start_tick, "note_on", n>>) = {a}
                           /\ Positions(ev, <<n.end_tick, "note_off", n>>) = {b}
                /\ \A k \in DOMAIN ev : \A l \in DOMAIN ev :
                       k < l =>
                           /\ ev[k][1] <= ev[l][1]
                           /\ ev[k][1] = ev[l][1] =>
                                  ~(ev[k][2] = "note_off" /\ ev[l][2] = "note_on")
                /\ Len(out) = metas + Len(ev)
                /\ \A k \in DOMAIN ev :
                       LET m == out[metas + k]
                           prev == IF k = 1 THEN 0 ELSE ev[k - 1][1]
                       IN  /\ m.type = ev[k][2]
                           /\ m.note = ev[k][3].pitch
                           /\ m.channel = ev[k][3].channel
                           /\ m.velocity = IF ev[k][2] = "note_on"
                                           THEN ev[k][3].velocity ELSE 0
                           /\ m.time = ev[k][1] - prev
                           /\ m.time >= 0

\* C9 witness: on one track a note that ends where a note listed after it
\* starts, and a zero-length note: the later note's note_on was emitted
\* before the earlier note's note_off
C9_SameTickOnBeforeOff ==
    /\ pc = "reconstructed"
    /\ \E i \in DOMAIN notes : \E j \in DOMAIN notes : \E z \in DOMAIN notes :
           /\ i < j
           /\ notes[i].track_idx = notes[j].track_idx
           /\ notes[i].start_tick < notes[i].end_tick
           /\ notes[i].end_tick = notes[j].start_tick
           /\ notes[z].track_idx = notes[i].track_idx
           /\ notes[z].start_tick = notes[z].end_tick
           /\ LET ev == events[notes[i].track_idx + 1]
              IN  \E a \in DOMAIN ev : \E b \in DOMAIN ev :
                      /\ a < b
                      /\ ev[a] = <<notes[j].start_tick, "note_on", notes[j]>>
                      /\ ev[b] = <<notes[i].end_tick, "note_off", notes[i]>>

====
